---------------------------- MODULE Spec2Model ----------------------------
(***************************************************************************)
(* Model of streamlit_app.py: one run of the script over an uploaded       *)
(* transaction file.  Each action is one statement group of the script, in *)
(* source order; pc is the script's position.                              *)
(*                                                                         *)
(* A cell of a DataFrame is a record [k, s, n]: k is the kind of value     *)
(* ("null" for NaN/NaT/None, "str", "num" for a float, "ts" for a          *)
(* Timestamp, "period" for a monthly Period, "date" for a datetime.date),  *)
(* s the text of a "str" cell and n the number of the other kinds.         *)
(* Amounts are whole currency units (exactly representable floats), dates  *)
(* are packed as (year*12 + month-1)*31 + day-1, which keeps their order.  *)
(***************************************************************************)
EXTENDS Integers, Sequences, FiniteSets, TLC

VARIABLES
    pc,               \* position of the script
    uploaded_file,    \* the file held by st.file_uploader (line 28)
    data,             \* the DataFrame `data`
    selected,         \* selected_date, selected_amount, selected_category, selected_type
    total_income,     \* line 66
    total_expenses,   \* line 67
    net_savings,      \* line 68
    cards,            \* the three values handed to the metric cards (lines 73-75)
    category_summary, \* line 85
    monthly_summary,  \* line 101
    type_summary,     \* line 116
    daily_summary,    \* line 131
    top_categories,   \* line 146
    csv,              \* line 177
    shown,            \* what the page shows: previews, cards, charts, warnings, the error
    bound             \* the script variables assigned so far in this run

vars == <<pc, uploaded_file, data, selected, total_income, total_expenses,
          net_savings, cards, category_summary, monthly_summary, type_summary,
          daily_summary, top_categories, csv, shown, bound>>

----------------------------------------------------------------------------
(* Bounds of the model. *)

\* Longest table of the general suite.
MaxRows == 3
\* Longest table of the metrics suite.
MetricsRows == 2
\* Longest table of the top-categories suite (more categories than TopN).
TopRows == 6
\* Longest partial table a corrupt file holds, and longest spreadsheet table.
MaxPartial == 1

\* nlargest(5), line 146.
TopN == 5

----------------------------------------------------------------------------
(* Cells. *)

Null == [k |-> "null", s |-> "", n |-> 0]
Str(x) == [k |-> "str", s |-> x, n |-> 0]
Num(x) == [k |-> "num", s |-> "", n |-> x]
Ts(x) == [k |-> "ts", s |-> "", n |-> x]
Period(x) == [k |-> "period", s |-> "", n |-> x]
DateOf(x) == [k |-> "date", s |-> "", n |-> x]

IsNull(cell) == cell.k = "null"

Ymd(y, m, d) == (y * 12 + (m - 1)) * 31 + (d - 1)

\* pd.to_datetime(..., errors="coerce") on one cell, line 54: the date texts
\* that occur in the modelled files parse, any other text and NaN give NaT.
ParseDate(cell) ==
    IF cell.k = "ts" THEN cell
    ELSE IF cell.k # "str" THEN Null
    ELSE CASE cell.s = "2024-01-05" -> Ts(Ymd(2024, 1, 5))
           [] cell.s = "2024-01-10" -> Ts(Ymd(2024, 1, 10))
           [] cell.s = "2024-02-03" -> Ts(Ymd(2024, 2, 3))
           [] cell.s = "2023-12-31" -> Ts(Ymd(2023, 12, 31))
           [] OTHER -> Null

\* pd.to_numeric(..., errors="coerce") on one cell, line 57.
ParseNumber(cell) ==
    IF cell.k = "num" THEN cell
    ELSE IF cell.k # "str" THEN Null
    ELSE CASE cell.s = "-50.00" -> Num(-50)
           [] cell.s = "1000.00" -> Num(1000)
           [] cell.s = "50.00" -> Num(50)
           [] cell.s = "20.00" -> Num(20)
           [] OTHER -> Null

\* .astype(str) on one cell of a column without nulls, line 63.
\* A text stays as it is and NaN becomes "nan"; the Type column of the modelled
\* selections holds nothing else.
AsStr(cell) ==
    CASE cell.k = "str" -> cell
      [] cell.k = "null" -> Str("nan")

\* str.lower() on the texts of the modelled files, lines 66-67.
LowerIdentity(s) == s
StrLower(s) ==
    CASE s = "Income" -> "income"
      [] s = "EXPENSE" -> "expense"
      [] OTHER -> s

\* Python's order of str (by code point) on the texts that can be group keys.
StrOrder ==
    <<"EXPENSE", "Income", "bills", "cafe", "expense", "food", "gifts",
      "income", "nan", "pets", "rent", "transfer", "travel", "zoo">>
StrRank(s) == CHOOSE i \in 1..Len(StrOrder) : StrOrder[i] = s

\* The order groupby sorts its keys by (sort=True), line 85.
KeyLess(a, b) ==
    IF a.k = "str" /\ b.k = "str" THEN StrRank(a.s) < StrRank(b.s)
    ELSE a.n < b.n

Abs(x) == IF x < 0 THEN -x ELSE x
Min(a, b) == IF a < b THEN a ELSE b

RECURSIVE SumSeq(_)
SumSeq(s) == IF s = <<>> THEN 0 ELSE s[1] + SumSeq(Tail(s))

----------------------------------------------------------------------------
(* DataFrames: [columns |-> the column labels in order, rows |-> the rows in  *)
(* order], a row being [idx |-> its index label, c |-> its cells by column].  *)

NoFrame == [columns |-> <<>>, rows |-> <<>>]

Range(s) == {s[i] : i \in 1..Len(s)}

\* The columns of the uploaded files (their header row).
Columns == <<"Date", "Amount", "Category", "Type">>

\* pd.read_csv / pd.read_excel of a well-formed file, lines 35 and 37: the
\* header row gives the columns, the rows get a RangeIndex from 0.
ReadTable(f) ==
    [columns |-> Columns,
     rows |-> [i \in 1..Len(f.table) |-> [idx |-> i - 1, c |-> f.table[i]]]]

\* Whether the reader raises, lines 32-38.
ReadNeverRaises(f) == FALSE
ReadRaises(f) == f.corrupt

\* The conversions of lines 54, 57 and 63, by name.
Convert(how, cell) ==
    CASE how = "to_datetime" -> ParseDate(cell)
      [] how = "to_numeric" -> ParseNumber(cell)
      [] how = "astype(str)" -> AsStr(cell)

\* data[col] = how(data[col]), lines 54, 57 and 63.
MapColumn(frame, col, how) ==
    [frame EXCEPT !.rows =
        [i \in 1..Len(frame.rows) |->
            [frame.rows[i] EXCEPT !.c[col] = Convert(how, frame.rows[i].c[col])]]]

\* data[name] = vals, lines 100, 130 and 161: an existing column is
\* overwritten in place, a new one is appended.
SetColumn(frame, name, vals) ==
    [columns |-> IF name \in Range(frame.columns) THEN frame.columns
                 ELSE Append(frame.columns, name),
     rows |-> [i \in 1..Len(frame.rows) |->
                 [idx |-> frame.rows[i].idx,
                  c |-> [col \in Range(frame.columns) \cup {name} |->
                            IF col = name THEN vals[i]
                            ELSE frame.rows[i].c[col]]]]]

\* The subset of line 60.
DropSubsetDateAmount(sel) == {sel.date, sel.amount}
DropSubsetNoCategory(sel) == {sel.date, sel.amount, sel.type}
DropSubsetNoAmount(sel) == {sel.date, sel.category, sel.type}
DropSubset(sel) == {sel.date, sel.amount, sel.category, sel.type}

\* data.dropna(subset=...), line 60: the rows with no null in the subset, in
\* their order and with their index labels.
DropNa(frame, subset) ==
    [frame EXCEPT !.rows =
        SelectSeq(frame.rows, LAMBDA r : \A col \in subset : ~IsNull(r.c[col]))]

\* The float a sum adds for a cell (skipna: a null adds nothing).
Value(cell) == IF cell.k = "num" THEN cell.n ELSE 0

\* data[col] as a sequence of floats.
Amounts(rows, col) == [i \in 1..Len(rows) |-> Value(rows[i].c[col])]

\* data[data[tcol].str.lower() == word][acol].sum(), lines 66-67.
SumWhereType(frame, tcol, word, acol) ==
    SumSeq(Amounts(SelectSeq(frame.rows,
                             LAMBDA r : r.c[tcol].k = "str"
                                        /\ StrLower(r.c[tcol].s) = word),
                   acol))

RECURSIVE SortKeys(_)
SortKeys(S) ==
    IF S = {} THEN <<>>
    ELSE LET m == CHOOSE x \in S : \A y \in S \ {x} : KeyLess(x, y)
         IN <<m>> \o SortKeys(S \ {m})

\* data.groupby(kcol)[acol].sum(), lines 85, 101, 116, 131, 146: rows with a
\* null key belong to no group (dropna=True), the groups come sorted by key.
GroupBy(frame, kcol, acol) ==
    LET keys == {frame.rows[i].c[kcol] : i \in 1..Len(frame.rows)} \ {Null}
        sorted == SortKeys(keys)
    IN [j \in 1..Len(sorted) |->
           [key |-> sorted[j],
            val |-> SumSeq(Amounts(SelectSeq(frame.rows,
                                             LAMBDA r : r.c[kcol] = sorted[j]),
                                   acol))]]

\* s with its i-th element removed.
Remove(s, i) == SubSeq(s, 1, i - 1) \o SubSeq(s, i + 1, Len(s))

\* Series.nlargest(n) (keep="first"), line 146: the n largest values in
\* descending order, equal values in their order in the series.
RECURSIVE NLargestAbs(_, _)
NLargestAbs(series, n) ==
    IF n = 0 \/ series = <<>> THEN <<>>
    ELSE LET i == CHOOSE i \in 1..Len(series) :
                      /\ \A j \in 1..Len(series) :
                            Abs(series[j].val) <= Abs(series[i].val)
                      /\ \A j \in 1..(i - 1) :
                            Abs(series[j].val) < Abs(series[i].val)
         IN <<series[i]>> \o NLargestAbs(Remove(series, i), n - 1)

RECURSIVE NLargestRec(_, _)
NLargestRec(series, n) ==
    IF n = 0 \/ series = <<>> THEN <<>>
    ELSE LET i == CHOOSE i \in 1..Len(series) :
                      /\ \A j \in 1..Len(series) : series[j].val <= series[i].val
                      /\ \A j \in 1..(i - 1) : series[j].val < series[i].val
         IN <<series[i]>> \o NLargestRec(Remove(series, i), n - 1)

NLargest(series, n) == NLargestRec(series, n)

\* Series.cumsum(), line 161.
RECURSIVE CumSumRec(_, _)
CumSumRec(s, acc) ==
    IF s = <<>> THEN <<>>
    ELSE <<acc + s[1]>> \o CumSumRec(Tail(s), acc + s[1])

CumSumLocal(s) == s
CumSum(s) == CumSumRec(s, 0)

\* One field of df.to_csv(index=False), line 175: a Timestamp at midnight and
\* a date are written alike, a null as the empty text.
CsvField(cell) ==
    CASE cell.k \in {"ts", "date"} -> [k |-> "ymd", s |-> "", n |-> cell.n]
      [] cell.k = "period" -> [k |-> "ym", s |-> "", n |-> cell.n]
      [] cell.k = "num" -> [k |-> "float", s |-> "", n |-> cell.n]
      [] cell.k = "str" -> [k |-> "text", s |-> cell.s, n |-> 0]
      [] cell.k = "null" -> [k |-> "text", s |-> "", n |-> 0]

\* convert_df, lines 174-175: the header and one line per row, no index.
convert_df(df) ==
    [header |-> df.columns,
     lines |-> [i \in 1..Len(df.rows) |->
                  [j \in 1..Len(df.columns) |->
                      CsvField(df.rows[i].c[df.columns[j]])]]]

NoCsv == [header |-> <<>>, lines |-> <<>>]

----------------------------------------------------------------------------
(* The uploaded files of the model.  A file is [name, corrupt, table]:      *)
(* table holds the data rows the reader yields (for a corrupt file, what it *)
(* had parsed before it raised), each row a function from Columns to cells  *)
(* as read (text or NaN).  The cells of row i are drawn per suite.          *)

GeneralDates == <<"2024-02-03", "2024-01-10", "2024-01-05", "2023-12-31">>
GeneralAmounts == <<"1000.00", "-50.00", "50.00", "20.00">>
GeneralCategories == <<"rent", "food", "rent", "bills">>
GeneralTypes == <<"income", "transfer", "Income", "expense">>
MetricsDates == <<"2024-01-05", "2024-01-10", "2024-02-03", "2024-02-03">>
TopCategories ==
    <<"rent", "food", "bills", "travel", "gifts", "cafe", "pets", "zoo">>

Row(d, a, c, t) ==
    [col \in Range(Columns) |->
        CASE col = "Date" -> d
          [] col = "Amount" -> a
          [] col = "Category" -> c
          [] col = "Type" -> t]

\* general: row i is a well-formed row or has one or two cells that are
\* missing or do not parse.  metrics: well-formed rows of every amount, type
\* and category.  top: well-formed rows, each in its own category or in the
\* first row's.
RowsAt(suite, i) ==
    CASE suite = "general" ->
           LET d == Str(GeneralDates[i])
               a == Str(GeneralAmounts[i])
               c == Str(GeneralCategories[i])
               t == Str(GeneralTypes[i])
               bad == Str("not-a-date")
           IN {Row(d, a, c, t), Row(bad, a, c, t), Row(Null, a, c, t),
               Row(d, Str("abc"), c, t), Row(d, Null, c, t),
               Row(d, a, Null, t), Row(d, a, c, Null),
               Row(bad, a, Null, t), Row(d, Str("abc"), c, Null)}
      [] suite = "metrics" ->
           {Row(Str(MetricsDates[i]), a, c, t) :
              a \in {Str("-50.00"), Str("1000.00"), Str("50.00")},
              c \in {Str("food"), Str("rent")},
              t \in {Str("income"), Str("Income"), Str("expense"),
                     Str("transfer")}}
      [] suite = "top" ->
           {Row(Str("2024-01-05"), a, c, Str("expense")) :
              a \in {Str("-50.00"), Str("20.00")},
              c \in {Str(TopCategories[i]), Str(TopCategories[1])}}

RECURSIVE Tables(_, _)
Tables(suite, n) ==
    IF n = 0 THEN {<<>>}
    ELSE LET shorter == Tables(suite, n - 1)
         IN shorter \cup {Append(t, r) : t \in {s \in shorter : Len(s) = n - 1},
                                          r \in RowsAt(suite, n)}

Files(suite, n) ==
    {[name |-> "transactions.csv", corrupt |-> FALSE, table |-> t] :
        t \in Tables(suite, n)}
    \cup {[name |-> "transactions.xlsx", corrupt |-> FALSE, table |-> t] :
            t \in Tables(suite, Min(n, MaxPartial))}
    \cup {[name |-> nm, corrupt |-> TRUE, table |-> t] :
            nm \in {"transactions.csv", "transactions.xlsx"},
            t \in Tables(suite, Min(n, MaxPartial))}

\* The column choices of the model.  Each selectbox offers every column
\* (lines 46-49).  Date, Amount and Type each take their namesake column or
\* the Category column, on three different columns; Category takes any
\* column.  Choices that put two of Date, Amount and Type on one column are
\* left out: the later conversion then works on the result of the earlier one
\* (to_numeric of a datetime column, astype(str) of a float column), which
\* ParseNumber and AsStr do not model.
Selection(d, a, c, t) == [date |-> d, amount |-> a, category |-> c, type |-> t]
Selections ==
    {sel \in {Selection(d, a, c, t) : d \in {"Date", "Category"},
                                     a \in {"Amount", "Category"},
                                     c \in Range(Columns),
                                     t \in {"Type", "Category"}} :
        Cardinality({sel.date, sel.amount, sel.type}) = 3}

NoSelection == Selection("", "", "", "")
NoCards == [expenses |-> 0, income |-> 0, savings |-> 0]

----------------------------------------------------------------------------
(* The run. *)

Fresh ==
    /\ pc = "start"
    /\ data = NoFrame
    /\ selected = NoSelection
    /\ total_income = 0
    /\ total_expenses = 0
    /\ net_savings = 0
    /\ cards = NoCards
    /\ category_summary = <<>>
    /\ monthly_summary = <<>>
    /\ type_summary = <<>>
    /\ daily_summary = <<>>
    /\ top_categories = <<>>
    /\ csv = NoCsv
    /\ shown = {}
    /\ bound = {}

Init == uploaded_file \in Files("general", MaxRows) /\ Fresh
InitMetrics == uploaded_file \in Files("metrics", MetricsRows) /\ Fresh
InitTop == uploaded_file \in Files("top", TopRows) /\ Fresh

\* Lines 34-35: a .csv file is read with read_csv.
ReadCsv ==
    /\ pc = "start"
    /\ uploaded_file.name = "transactions.csv"
    /\ ~ReadRaises(uploaded_file)
    /\ data' = ReadTable(uploaded_file)
    /\ bound' = bound \cup {"data"}
    /\ pc' = "loaded"
    /\ UNCHANGED <<uploaded_file, selected, total_income, total_expenses,
                   net_savings, cards, category_summary, monthly_summary,
                   type_summary, daily_summary, top_categories, csv, shown>>

\* Lines 36-37: any other file is read with read_excel.
ReadExcel ==
    /\ pc = "start"
    /\ uploaded_file.name # "transactions.csv"
    /\ ~ReadRaises(uploaded_file)
    /\ data' = ReadTable(uploaded_file)
    /\ bound' = bound \cup {"data"}
    /\ pc' = "loaded"
    /\ UNCHANGED <<uploaded_file, selected, total_income, total_expenses,
                   net_savings, cards, category_summary, monthly_summary,
                   type_summary, daily_summary, top_categories, csv, shown>>

\* Lines 38-39: the reader raised; the error is shown and the else branch
\* (lines 40-183) is not run.
LoadError ==
    /\ pc = "start"
    /\ ReadRaises(uploaded_file)
    /\ shown' = shown \cup {"error"}
    /\ pc' = "end"
    /\ UNCHANGED <<uploaded_file, data, selected, total_income, total_expenses,
                   net_savings, cards, category_summary, monthly_summary,
                   type_summary, daily_summary, top_categories, csv, bound>>

\* Lines 42-52: the preview and the four selectboxes, each offering
\* data.columns; column labels are non-empty texts, so line 52 lets the run on.
SelectColumns ==
    /\ pc = "loaded"
    /\ \E sel \in Selections :
          /\ {sel.date, sel.amount, sel.category, sel.type}
                \subseteq Range(data.columns)
          /\ selected' = sel
    /\ shown' = shown \cup {"preview"}
    /\ bound' = bound \cup {"selected"}
    /\ pc' = "selected"
    /\ UNCHANGED <<uploaded_file, data, total_income, total_expenses,
                   net_savings, cards, category_summary, monthly_summary,
                   type_summary, daily_summary, top_categories, csv>>

\* Line 54.
ToDatetime ==
    /\ pc = "selected"
    /\ data' = MapColumn(data, selected.date, "to_datetime")
    /\ pc' = "dated"
    /\ UNCHANGED <<uploaded_file, selected, total_income, total_expenses,
                   net_savings, cards, category_summary, monthly_summary,
                   type_summary, daily_summary, top_categories, csv, shown,
                   bound>>

\* Line 57.
ToNumeric ==
    /\ pc = "dated"
    /\ data' = MapColumn(data, selected.amount, "to_numeric")
    /\ pc' = "numbered"
    /\ UNCHANGED <<uploaded_file, selected, total_income, total_expenses,
                   net_savings, cards, category_summary, monthly_summary,
                   type_summary, daily_summary, top_categories, csv, shown,
                   bound>>

\* Line 60.
DropRows ==
    /\ pc = "numbered"
    /\ data' = DropNa(data, DropSubset(selected))
    /\ pc' = "dropped"
    /\ UNCHANGED <<uploaded_file, selected, total_income, total_expenses,
                   net_savings, cards, category_summary, monthly_summary,
                   type_summary, daily_summary, top_categories, csv, shown,
                   bound>>

\* Line 63.
TypeToStr ==
    /\ pc = "dropped"
    /\ data' = MapColumn(data, selected.type, "astype(str)")
    /\ pc' = "normalized"
    /\ UNCHANGED <<uploaded_file, selected, total_income, total_expenses,
                   net_savings, cards, category_summary, monthly_summary,
                   type_summary, daily_summary, top_categories, csv, shown,
                   bound>>

\* Lines 66-75: the three metrics and their cards.
KeyMetrics ==
    /\ pc = "normalized"
    /\ LET income == SumWhereType(data, selected.type, "income", selected.amount)
           expenses == SumWhereType(data, selected.type, "expense", selected.amount)
       IN /\ total_income' = income
          /\ total_expenses' = expenses
          /\ net_savings' = income - expenses
          /\ cards' = [expenses |-> Abs(expenses), income |-> income,
                       savings |-> income - expenses]
    /\ shown' = shown \cup {"metrics"}
    /\ bound' = bound \cup {"total_income", "total_expenses", "net_savings"}
    /\ pc' = "metrics"
    /\ UNCHANGED <<uploaded_file, data, selected, category_summary,
                   monthly_summary, type_summary, daily_summary, top_categories,
                   csv>>

\* The guard before each chart (lines 88, 104, 119, 134, 149, 164): an empty
\* series (a sum is never null) gives the warning instead of the chart.
ChartOrWarning(name, series) ==
    IF series = <<>> THEN {"warning " \o name} ELSE {"chart " \o name}

\* Lines 85-95.
CategoryView ==
    /\ pc = "metrics"
    /\ category_summary' = GroupBy(data, selected.category, selected.amount)
    /\ shown' = shown \cup ChartOrWarning("category", category_summary')
    /\ bound' = bound \cup {"category_summary"}
    /\ pc' = "category"
    /\ UNCHANGED <<uploaded_file, data, selected, total_income, total_expenses,
                   net_savings, cards, monthly_summary, type_summary,
                   daily_summary, top_categories, csv>>

\* to_period("M") of a Timestamp, line 100.
MonthOf(cell) == IF cell.k = "ts" THEN Period(cell.n \div 31) ELSE Null

\* .dt.date of a Timestamp, line 130.
DayOf(cell) == IF cell.k = "ts" THEN DateOf(cell.n) ELSE Null

\* The labels of the columns the views add (lines 100, 130, 161).
MonthColumn == "Month"
DayColumn == "Day"
CumulativeIntoAmount == "Amount"
CumulativeColumn == "Cumulative"

\* Lines 100-111.
MonthlyView ==
    /\ pc = "category"
    /\ data' = SetColumn(data, MonthColumn,
                         [i \in 1..Len(data.rows) |->
                             MonthOf(data.rows[i].c[selected.date])])
    /\ monthly_summary' = GroupBy(data', MonthColumn, selected.amount)
    /\ shown' = shown \cup ChartOrWarning("monthly", monthly_summary')
    /\ bound' = bound \cup {"monthly_summary"}
    /\ pc' = "monthly"
    /\ UNCHANGED <<uploaded_file, selected, total_income, total_expenses,
                   net_savings, cards, category_summary, type_summary,
                   daily_summary, top_categories, csv>>

\* Lines 116-125.
TypeView ==
    /\ pc = "monthly"
    /\ type_summary' = GroupBy(data, selected.type, selected.amount)
    /\ shown' = shown \cup ChartOrWarning("type", type_summary')
    /\ bound' = bound \cup {"type_summary"}
    /\ pc' = "type"
    /\ UNCHANGED <<uploaded_file, data, selected, total_income, total_expenses,
                   net_savings, cards, category_summary, monthly_summary,
                   daily_summary, top_categories, csv>>

\* Lines 130-141.
DailyView ==
    /\ pc = "type"
    /\ data' = SetColumn(data, DayColumn,
                         [i \in 1..Len(data.rows) |->
                             DayOf(data.rows[i].c[selected.date])])
    /\ daily_summary' = GroupBy(data', DayColumn, selected.amount)
    /\ shown' = shown \cup ChartOrWarning("daily", daily_summary')
    /\ bound' = bound \cup {"daily_summary"}
    /\ pc' = "daily"
    /\ UNCHANGED <<uploaded_file, selected, total_income, total_expenses,
                   net_savings, cards, category_summary, monthly_summary,
                   type_summary, top_categories, csv>>

\* Lines 146-156.
TopView ==
    /\ pc = "daily"
    /\ top_categories' =
          NLargest(GroupBy(data, selected.category, selected.amount), TopN)
    /\ shown' = shown \cup ChartOrWarning("top", top_categories')
    /\ bound' = bound \cup {"top_categories"}
    /\ pc' = "top"
    /\ UNCHANGED <<uploaded_file, data, selected, total_income, total_expenses,
                   net_savings, cards, category_summary, monthly_summary,
                   type_summary, daily_summary, csv>>

\* Lines 161-171.
CumulativeView ==
    /\ pc = "top"
    /\ LET sums == CumSum(Amounts(data.rows, selected.amount))
       IN /\ data' = SetColumn(data, CumulativeColumn,
                               [i \in 1..Len(sums) |-> Num(sums[i])])
          /\ shown' = shown \cup ChartOrWarning("cumulative", sums)
    /\ pc' = "cumulative"
    /\ UNCHANGED <<uploaded_file, selected, total_income, total_expenses,
                   net_savings, cards, category_summary, monthly_summary,
                   type_summary, daily_summary, top_categories, csv, bound>>

\* Lines 174-183: the table is serialized and offered for download; the
\* script ends.
Download ==
    /\ pc = "cumulative"
    /\ csv' = convert_df(data)
    /\ shown' = shown \cup {"download"}
    /\ bound' = bound \cup {"csv"}
    /\ pc' = "end"
    /\ UNCHANGED <<uploaded_file, data, selected, total_income, total_expenses,
                   net_savings, cards, category_summary, monthly_summary,
                   type_summary, daily_summary, top_categories>>

\* Streamlit runs the script again from its first line on the next
\* interaction, with the uploader still holding the file: no variable of the
\* finished run is left.
Rerun ==
    /\ pc = "end"
    /\ pc' = "start"
    /\ data' = NoFrame
    /\ selected' = NoSelection
    /\ total_income' = 0
    /\ total_expenses' = 0
    /\ net_savings' = 0
    /\ cards' = NoCards
    /\ category_summary' = <<>>
    /\ monthly_summary' = <<>>
    /\ type_summary' = <<>>
    /\ daily_summary' = <<>>
    /\ top_categories' = <<>>
    /\ csv' = NoCsv
    /\ shown' = {}
    /\ bound' = {}
    /\ UNCHANGED uploaded_file

Next ==
    \/ ReadCsv
    \/ ReadExcel
    \/ LoadError
    \/ SelectColumns
    \/ ToDatetime
    \/ ToNumeric
    \/ DropRows
    \/ TypeToStr
    \/ KeyMetrics
    \/ CategoryView
    \/ MonthlyView
    \/ TypeView
    \/ DailyView
    \/ TopView
    \/ CumulativeView
    \/ Download
    \/ Rerun

Spec == Init /\ [][Next]_vars
SpecMetrics == InitMetrics /\ [][Next]_vars
SpecTop == InitTop /\ [][Next]_vars

----------------------------------------------------------------------------
(* Properties. *)

PcOrder ==
    <<"start", "loaded", "selected", "dated", "numbered", "dropped",
      "normalized", "metrics", "category", "monthly", "type", "daily", "top",
      "cumulative", "end">>
Stage == CHOOSE i \in 1..Len(PcOrder) : PcOrder[i] = pc

\* The run has a table and has passed the statement that leads to position p.
Past(p) ==
    /\ "data" \in bound
    /\ \E i \in 1..Len(PcOrder) : PcOrder[i] = p /\ Stage >= i

DefaultSelection == Selection("Date", "Amount", "Category", "Type")

\* The cells of source row i in the selected columns after the two coercions
\* (a column selected for two roles is coerced twice).
Coerced(i, col) ==
    LET raw == uploaded_file.table[i][col]
        dated == IF col = selected.date THEN ParseDate(raw) ELSE raw
    IN IF col = selected.amount THEN ParseNumber(dated) ELSE dated

KeptLabels == {data.rows[i].idx : i \in 1..Len(data.rows)}

\* The position of a column in the export's header.
HeaderPos(col) == CHOOSE j \in 1..Len(csv.header) : csv.header[j] = col

\* C1: once the rows are dropped (line 60), every row of the table has a
\* non-null date and a non-null amount, at every later position of the run,
\* and no line of the export has an empty date or amount field.
C1_NonNullDateAndAmount ==
    /\ Past("dropped") =>
          \A i \in 1..Len(data.rows) :
              /\ ~IsNull(data.rows[i].c[selected.date])
              /\ ~IsNull(data.rows[i].c[selected.amount])
    /\ "csv" \in bound =>
          \A i \in 1..Len(csv.lines) :
              /\ csv.lines[i][HeaderPos(selected.date)]
                    # CsvField(Null)
              /\ csv.lines[i][HeaderPos(selected.amount)]
                    # CsvField(Null)

\* C1 witness: the run has exported a table from which a row with an
\* unparseable date and a row with an unparseable amount were dropped and in
\* which a row is left.
C1_Witness ==
    /\ pc = "end" /\ "csv" \in bound
    /\ selected = DefaultSelection
    /\ Len(csv.lines) = 1
    /\ \E i, j \in 1..Len(uploaded_file.table) :
          /\ uploaded_file.table[i]["Date"] = Str("not-a-date")
          /\ uploaded_file.table[j]["Amount"] = Str("abc")

\* C2 as claimed: the kept rows are exactly the source rows whose Date and
\* Amount cells coerce, whatever their Category and Type cells.
C2_KeptIffDateAndAmount ==
    Past("dropped") =>
        KeptLabels =
            {i - 1 : i \in {j \in 1..Len(uploaded_file.table) :
                               /\ ~IsNull(Coerced(j, selected.date))
                               /\ ~IsNull(Coerced(j, selected.amount))}}

\* C2 amended: the kept rows are exactly the source rows whose Date and
\* Amount cells coerce and whose Category and Type cells are not null, in
\* source order; the row count is the number of such rows.
C2_KeptIffFourCellsPresent ==
    Past("dropped") =>
        /\ KeptLabels =
              {i - 1 : i \in {j \in 1..Len(uploaded_file.table) :
                                 /\ ~IsNull(Coerced(j, selected.date))
                                 /\ ~IsNull(Coerced(j, selected.amount))
                                 /\ ~IsNull(Coerced(j, selected.category))
                                 /\ ~IsNull(Coerced(j, selected.type))}}
        /\ Len(data.rows) = Cardinality(KeptLabels)
        /\ \A i, j \in 1..Len(data.rows) :
              i < j => data.rows[i].idx < data.rows[j].idx

\* C2 witness: a row with a valid date and amount and no category was dropped,
\* a row with a type that is neither income nor expense was kept.
C2_Witness ==
    /\ pc = "dropped"
    /\ selected = DefaultSelection
    /\ \E i \in 1..Len(uploaded_file.table) :
          /\ ~IsNull(Coerced(i, "Date"))
          /\ ~IsNull(Coerced(i, "Amount"))
          /\ IsNull(uploaded_file.table[i]["Category"])
          /\ (i - 1) \notin KeptLabels
    /\ \E i \in 1..Len(data.rows) : data.rows[i].c["Type"] = Str("transfer")

\* Whether text s equals word w when letter case is ignored, on the texts of
\* the modelled files.
EqualsIgnoringCase(s, w) ==
    \/ s = w
    \/ w = "income" /\ s \in {"Income", "INCOME"}
    \/ w = "expense" /\ s \in {"Expense", "EXPENSE"}

\* The sum of amount over the rows of the table whose type is word w.
TypedTotal(w) ==
    LET n == Len(data.rows)
        f[i \in 0..n] ==
            IF i = 0 THEN 0
            ELSE f[i - 1]
                 + (IF EqualsIgnoringCase(data.rows[i].c[selected.type].s, w)
                    THEN data.rows[i].c[selected.amount].n ELSE 0)
    IN f[n]

\* The sum of amount over the first k rows of the table.
PrefixTotal(k) ==
    LET f[i \in 0..k] ==
            IF i = 0 THEN 0 ELSE f[i - 1] + data.rows[i].c[selected.amount].n
    IN f[k]

\* C3 as claimed: when every expense row has a negative amount, the reported
\* expenses are the magnitude of their sum and the reported net savings are
\* the income minus that magnitude; the two rows (-50.00, expense) and
\* (1000.00, income) give 50, 1000 and 950.
C3_NegativeExpensesMetrics ==
    /\ ( /\ Past("metrics")
         /\ \A i \in 1..Len(data.rows) :
               EqualsIgnoringCase(data.rows[i].c[selected.type].s, "expense")
                   => data.rows[i].c[selected.amount].n < 0 )
       => /\ cards.expenses >= 0
          /\ cards.expenses = Abs(TypedTotal("expense"))
          /\ cards.savings = cards.income - cards.expenses
          /\ net_savings = total_income - cards.expenses
    /\ ( /\ Past("metrics")
         /\ selected = DefaultSelection
         /\ Len(uploaded_file.table) = 2
         /\ uploaded_file.table[1]["Amount"] = Str("-50.00")
         /\ uploaded_file.table[1]["Type"] = Str("expense")
         /\ uploaded_file.table[2]["Amount"] = Str("1000.00")
         /\ uploaded_file.table[2]["Type"] = Str("income") )
       => /\ cards.expenses = 50
          /\ cards.income = 1000
          /\ cards.savings = 950
          /\ net_savings = 950

\* C4: total_income is the sum of amount over exactly the rows whose type is
\* "income" ignoring case, total_expenses the sum over exactly those whose
\* type is "expense" ignoring case, and net_savings is their difference.
C4_MetricsByType ==
    Past("metrics") =>
        /\ total_income = TypedTotal("income")
        /\ total_expenses = TypedTotal("expense")
        /\ net_savings = total_income - total_expenses

\* C4 witness: metrics of a table with an "Income" row and a "transfer" row,
\* the transfer counted in neither total.
C4_Witness ==
    /\ pc = "metrics"
    /\ selected = DefaultSelection
    /\ Len(data.rows) = 2
    /\ data.rows[1].c["Type"] = Str("Income")
    /\ data.rows[2].c["Type"] = Str("transfer")
    /\ total_income = data.rows[1].c["Amount"].n
    /\ total_expenses = 0

\* C5: the category totals add up to the sum of amount over the whole table,
\* every row's category is a group and no group occurs twice.
C5_CategoryTotalsConserveSum ==
    Past("category") =>
        /\ SumSeq([j \in 1..Len(category_summary) |-> category_summary[j].val])
              = PrefixTotal(Len(data.rows))
        /\ \A i \in 1..Len(data.rows) :
              \E j \in 1..Len(category_summary) :
                  category_summary[j].key = data.rows[i].c[selected.category]
        /\ \A i, j \in 1..Len(category_summary) :
              category_summary[i].key = category_summary[j].key => i = j

\* C5 witness: two categories over three rows with a non-zero total.
C5_Witness ==
    /\ pc = "category"
    /\ selected = DefaultSelection
    /\ Len(data.rows) = 3
    /\ Len(category_summary) = 2
    /\ PrefixTotal(3) # 0

\* C6: the Cumulative column has one element per row, the i-th being the sum
\* of amount over the first i rows; the rows are the kept source rows in
\* source order, so the last element is the sum of amount over the table.
C6_CumulativeIsPrefixSum ==
    Past("cumulative") =>
        /\ "Cumulative" \in Range(data.columns)
        /\ \A i \in 1..Len(data.rows) :
              /\ data.rows[i].c["Cumulative"] = Num(PrefixTotal(i))
              /\ data.rows[i].c[selected.amount]
                    = Coerced(data.rows[i].idx + 1, selected.amount)
        /\ \A i, j \in 1..Len(data.rows) :
              i < j => data.rows[i].idx < data.rows[j].idx
        /\ Len(data.rows) > 0 =>
              data.rows[Len(data.rows)].c["Cumulative"]
                  = Num(SumSeq(Amounts(data.rows, selected.amount)))

\* C6 witness: the first and the third source row are kept, the second is
\* dropped, the first row is dated after the third, and the series ends at
\* the sum of the two amounts.
C6_Witness ==
    /\ pc = "cumulative"
    /\ selected = DefaultSelection
    /\ Len(data.rows) = 2
    /\ data.rows[1].idx = 0 /\ data.rows[2].idx = 2
    /\ data.rows[1].c["Date"].n > data.rows[2].c["Date"].n
    /\ data.rows[2].c["Cumulative"] = Num(1050)

\* C7: for a file the reader fails on, the run shows the load error and
\* nothing else: no table, no selection, no metric, no view, no export.
C7_LoadErrorStopsRun ==
    uploaded_file.corrupt =>
        /\ pc \in {"start", "end"}
        /\ pc = "end" => shown = {"error"}
        /\ pc = "start" => shown = {}
        /\ bound = {}
        /\ data = NoFrame
        /\ selected = NoSelection
        /\ cards = NoCards
        /\ category_summary = <<>> /\ monthly_summary = <<>>
        /\ type_summary = <<>> /\ daily_summary = <<>>
        /\ top_categories = <<>>
        /\ csv = NoCsv

\* C7 witness: the run of a corrupt file that held a partial table has ended
\* with the error shown.
C7_Witness ==
    /\ uploaded_file.corrupt
    /\ Len(uploaded_file.table) = 1
    /\ pc = "end"
    /\ "error" \in shown

\* C8 as claimed: the income-vs-expense view has at most the two buckets
\* "income" and "expense", each the sum over the rows of that type ignoring
\* case.
C8_TypeViewTwoBuckets ==
    Past("type") =>
        /\ Len(type_summary) <= 2
        /\ \A j \in 1..Len(type_summary) :
              /\ type_summary[j].key.s \in {"income", "expense"}
              /\ type_summary[j].val = TypedTotal(type_summary[j].key.s)

\* The first row of the table in category k.
FirstSeen(k) ==
    CHOOSE i \in 1..Len(data.rows) :
        /\ data.rows[i].c[selected.category] = k
        /\ \A j \in 1..(i - 1) : data.rows[j].c[selected.category] # k

\* The position of category k in the category totals.
TotalsPos(k) ==
    CHOOSE j \in 1..Len(category_summary) : category_summary[j].key = k

\* a is listed before b when categories are ranked by magnitude, equal
\* magnitudes by first appearance in the table.
BeforeByMagnitude(a, b) ==
    \/ Abs(a.val) > Abs(b.val)
    \/ Abs(a.val) = Abs(b.val) /\ FirstSeen(a.key) < FirstSeen(b.key)

\* a is listed before b when categories are ranked by signed sum, equal sums
\* by their position in the category totals.
BeforeBySum(a, b) ==
    \/ a.val > b.val
    \/ a.val = b.val /\ TotalsPos(a.key) < TotalsPos(b.key)

\* C9 as claimed: the top view holds the min(5, number of categories)
\* categories of largest magnitude, in descending order of magnitude, equal
\* magnitudes in order of first appearance in the table.
C9_TopByMagnitude ==
    Past("top") =>
        /\ Len(top_categories) = Min(TopN, Len(category_summary))
        /\ Range(top_categories) \subseteq Range(category_summary)
        /\ \A i, j \in 1..Len(top_categories) :
              i < j => BeforeByMagnitude(top_categories[i], top_categories[j])
        /\ \A g \in Range(category_summary) \ Range(top_categories) :
              \A i \in 1..Len(top_categories) :
                  BeforeByMagnitude(top_categories[i], g)

\* C9 amended: the top view holds the min(5, number of categories) categories
\* of largest signed sum, in descending order of the sum, equal sums in the
\* order of the category totals, which is ascending order of the label.
C9_TopBySignedSum ==
    Past("top") =>
        /\ Len(top_categories) = Min(TopN, Len(category_summary))
        /\ Range(top_categories) \subseteq Range(category_summary)
        /\ \A i, j \in 1..Len(top_categories) :
              i < j => BeforeBySum(top_categories[i], top_categories[j])
        /\ \A g \in Range(category_summary) \ Range(top_categories) :
              \A i \in 1..Len(top_categories) :
                  BeforeBySum(top_categories[i], g)
        /\ \A i, j \in 1..Len(category_summary) :
              i < j => KeyLess(category_summary[i].key, category_summary[j].key)

\* C9 witness: six categories, five listed; the one left out has a negative
\* sum of larger magnitude than a listed one, and two listed categories with
\* equal sums stand in label order against their order of first appearance.
C9_Witness ==
    /\ pc = "top"
    /\ selected = DefaultSelection
    /\ Len(category_summary) = 6
    /\ Len(top_categories) = 5
    /\ \E g \in Range(category_summary) \ Range(top_categories) :
          /\ g.val < 0
          /\ \E i \in 1..5 : Abs(top_categories[i].val) < Abs(g.val)
    /\ \E i \in 1..4 :
          /\ top_categories[i].val = top_categories[i + 1].val
          /\ FirstSeen(top_categories[i].key)
                > FirstSeen(top_categories[i + 1].key)

\* The positions from which the metrics and the six views are computed.
ViewPcs ==
    {"normalized", "metrics", "category", "monthly", "type", "daily", "top"}

AddedColumns == {"Month", "Day", "Cumulative"}

\* C10 as claimed: no step that computes the metrics or a view changes the
\* table, and the export has the columns of the normalized table.
C10_ViewsLeaveTableUnchanged ==
    [][/\ pc \in ViewPcs => data' = data
       /\ pc = "cumulative" => csv'.header = Columns]_vars

\* C10 amended: the steps that compute the metrics and the views keep the
\* rows and every column other than Month, Day and Cumulative as they are,
\* and add no column but these three; the export has the columns of the
\* normalized table followed by Month, Day and Cumulative, one line per row.
C10_ViewsAddThreeColumns ==
    [][/\ pc \in ViewPcs =>
            /\ Len(data'.rows) = Len(data.rows)
            /\ SubSeq(data'.columns, 1, Len(data.columns)) = data.columns
            /\ Range(data'.columns) \subseteq Range(data.columns) \cup AddedColumns
            /\ \A i \in 1..Len(data.rows) :
                  /\ data'.rows[i].idx = data.rows[i].idx
                  /\ \A col \in Range(data.columns) \ AddedColumns :
                        data'.rows[i].c[col] = data.rows[i].c[col]
       /\ pc = "cumulative" =>
            /\ csv'.header = Columns \o <<"Month", "Day", "Cumulative">>
            /\ csv'.header = data.columns
            /\ Len(csv'.lines) = Len(data.rows)]_vars

\* C10 witness: a table of two rows has been exported with the three added
\* columns after the four of the file.
C10_Witness ==
    /\ pc = "end"
    /\ Len(csv.lines) = 2
    /\ csv.header = <<"Date", "Amount", "Category", "Type", "Month", "Day",
                      "Cumulative">>

=============================================================================
